---- MODULE Spec2Model ----
(***************************************************************************)
(* Error taxonomy and rejection dispatch of the paintings REST API.        *)
(*                                                                         *)
(* One request at a time travels through the pipeline: a filter or a       *)
(* handler either answers it or raises a warp Rejection, which             *)
(* handle_rejection turns into the terminal reply.  A Rejection is either  *)
(* the framework's route miss or a non-empty list of causes (warp combines *)
(* the rejections of alternative filters); find::<T>() returns the first   *)
(* cause of type T.  The trace variable records, in program order, every   *)
(* log call and every serialization of an envelope made for the request.   *)
(***************************************************************************)
EXTENDS Naturals, Sequences, FiniteSets, TLC

VARIABLES pc, request, rejection, response, trace, dispatches, store,
          CONFIG, setting, inits, config_call

\* the process-wide configuration cell, the value of the set() call that holds
\* the cell's permit and has not stored yet, the environments the init calls
\* so far ran in, and the last call made to the configuration module
configVars == <<CONFIG, setting, inits, config_call>>

vars == <<pc, request, rejection, response, trace, dispatches, store,
          CONFIG, setting, inits, config_call>>

----------------------------------------------------------------------------
(* Bounds of the model *)

\* longest list of causes one combined Rejection carries
MaxCauses == 2

\* override messages passed to ValidationError::new
OverrideMessages == {"x", "title is required"}

\* cause texts a body-parse failure can expose
CauseTexts == {"unexpected token", "missing field price"}

\* identifiers of paintings
PaintingIds == {"p1", "p2"}

\* calls of init in one run of the process
MaxInits == 2

----------------------------------------------------------------------------
(* Option, Result *)

None == <<>>
Some(x) == <<x>>
unwrap_or(opt, default) == IF opt = None THEN default ELSE opt[1]

Ok(v) == [tag |-> "Ok", value |-> v]
Err(e) == [tag |-> "Err", value |-> e]

\* a panic unwinding out of the call
Panic(message) == [tag |-> "Panic", value |-> message]

----------------------------------------------------------------------------
(* HTTP status codes *)

OK == 200
BAD_REQUEST == 400
UNAUTHORIZED == 401
NOT_FOUND == 404
METHOD_NOT_ALLOWED == 405
INTERNAL_SERVER_ERROR == 500

----------------------------------------------------------------------------
(* Response envelope and its rendering *)

GenericResponse(status, message, data) ==
    [status |-> status, message |-> message, data |-> data]

\* warp::reply::json of an envelope: the wire form of section 6
json(value) ==
    [status  |-> IF value.status = "Error" THEN "error" ELSE "success",
     message |-> value.message,
     data    |-> IF value.data = None THEN "null" ELSE value.data[1]]

with_status(reply, status) == [status_code |-> status, body |-> reply]

\* trace entries
LogEvent(level, target, msg, arg) ==
    [ev |-> "log", level |-> level, target |-> target, msg |-> msg, arg |-> arg]
JsonEvent(value) == [ev |-> "json", arg |-> value]

----------------------------------------------------------------------------
(* The five domain error kinds *)

UnauthorizedError_new ==
    [status |-> "Error", status_code |-> UNAUTHORIZED, message |-> "unauthorized"]

UnauthorizedError_response(self) ==
    LET response_ == GenericResponse(self.status, self.message, None)
    IN  [reply  |-> with_status(json(response_), self.status_code),
         events |-> <<JsonEvent(response_)>>]

\* mutant: the message copied from UnauthorizedError
TokenExpiredError_new_copied ==
    [status |-> "Error", status_code |-> UNAUTHORIZED, message |-> "unauthorized"]

TokenExpiredError_new ==
    [status |-> "Error", status_code |-> UNAUTHORIZED, message |-> "tokenExpired"]

TokenExpiredError_response(self) ==
    LET response_ == GenericResponse(self.status, self.message, None)
    IN  [reply  |-> with_status(json(response_), self.status_code),
         events |-> <<JsonEvent(response_)>>]

\* mutant: the override is dropped
ValidationError_new_ignores_override(error) ==
    [status |-> "Error", status_code |-> BAD_REQUEST, message |-> "validationError"]

ValidationError_new(error) ==
    [status |-> "Error", status_code |-> BAD_REQUEST,
     message |-> unwrap_or(error, "validationError")]

\* mutant: the error value itself is sent as data
ValidationError_response_with_data(self) ==
    LET response_ == GenericResponse(self.status, self.message, Some(self.message))
    IN  [reply  |-> with_status(json(response_), self.status_code),
         events |-> <<JsonEvent(response_)>>]

ValidationError_response(self) ==
    LET response_ == GenericResponse(self.status, self.message, None)
    IN  [reply  |-> with_status(json(response_), self.status_code),
         events |-> <<JsonEvent(response_)>>]

NotFoundError_new ==
    [status |-> "Error", status_code |-> NOT_FOUND, message |-> "notFound"]

NotFoundError_response(self) ==
    LET response_ == GenericResponse(self.status, self.message, None)
    IN  [reply  |-> with_status(json(response_), self.status_code),
         events |-> <<JsonEvent(response_)>>]

InternalServerError_new ==
    [status |-> "Error", status_code |-> INTERNAL_SERVER_ERROR,
     message |-> "internalServerError"]

InternalServerError_response(self) ==
    LET response_ == GenericResponse(self.status, self.message, None)
    IN  [reply  |-> with_status(json(response_), self.status_code),
         events |-> <<JsonEvent(response_)>>]

----------------------------------------------------------------------------
(* Rejections *)

\* a cause: the dynamic type of the rejected value, the argument its constructor
\* was called with (None when it takes none) and the value itself
Cause(type, arg, value) == [type |-> type, arg |-> arg, value |-> value]

DomainCauses ==
    {Cause("NotFoundError", None, NotFoundError_new),
     Cause("UnauthorizedError", None, UnauthorizedError_new),
     Cause("InternalServerError", None, InternalServerError_new),
     Cause("TokenExpiredError", None, TokenExpiredError_new)}
    \cup {Cause("ValidationError", e, ValidationError_new(e)) :
              e \in {None} \cup {Some(m) : m \in OverrideMessages}}

\* framework causes: method-not-allowed, body-parse failure with or without an
\* underlying source, and any other rejection (an invalid query, a missing
\* header, a custom type the dispatcher does not look for)
FrameworkCauses ==
    {Cause("MethodNotAllowed", None, [source |-> None]),
     Cause("Other", None, [source |-> None])}
    \cup {Cause("BodyDeserializeError", None, [source |-> s]) :
              s \in {None} \cup {Some(c) : c \in CauseTexts}}

Causes == DomainCauses \cup FrameworkCauses

CauseLists == UNION {[1..n -> Causes] : n \in 1..MaxCauses}

RouteMiss == [not_found |-> TRUE, causes |-> <<>>]

Rejections ==
    {RouteMiss} \cup {[not_found |-> FALSE, causes |-> cs] : cs \in CauseLists}

NoRejection == [not_found |-> FALSE, causes |-> <<>>]

is_not_found(error) == error.not_found

\* Rejection::find::<T>(): the first cause of dynamic type T
find(error, T) ==
    LET hits == SelectSeq(error.causes, LAMBDA c : c.type = T)
    IN  IF hits = <<>> THEN None ELSE Some(Head(hits).value)

\* std::error::Error::source of a BodyDeserializeError
source(body_deserialize_error) == body_deserialize_error.source

----------------------------------------------------------------------------
(* The dispatcher *)

\* the envelope handle_rejection starts from
DefaultResponse == GenericResponse("Error", "internalServerError", None)

\* a branch that sets the message of the default envelope and picks the status
Plain(message, code) ==
    LET r == [DefaultResponse EXCEPT !.message = message]
    IN  [ret |-> Ok(with_status(json(r), code)), events |-> <<JsonEvent(r)>>]

\* a branch that returns the reply of the error kind it found
Kind(rendered) == [ret |-> Ok(rendered.reply), events |-> rendered.events]

\* mutant: the underlying cause is never looked at
BodyDeserializeReply_no_cause(body_deserialize_error) ==
    Plain("badRequest", BAD_REQUEST)

\* the branch of a body-parse failure
BodyDeserializeReply(body_deserialize_error) ==
    IF source(body_deserialize_error) # None THEN
        LET cause == source(body_deserialize_error)[1]
            msg == "validationError - " \o cause
            validation_error == GenericResponse("Error", msg, None)
        IN  [ret    |-> Ok(with_status(json(validation_error), BAD_REQUEST)),
             events |-> <<LogEvent("error", "api", "BodyDeserializeError", cause),
                          JsonEvent(validation_error)>>]
    ELSE Plain("badRequest", BAD_REQUEST)

\* mutant: the message of the default envelope is left as it was
MethodNotAllowedReply_forgot_message ==
    Plain("internalServerError", METHOD_NOT_ALLOWED)

\* the branch of a method-not-allowed signal
MethodNotAllowedReply == Plain("methodNotAllowed", METHOD_NOT_ALLOWED)

\* mutant: what nothing matched is handed back to the framework
FallthroughReply_reraise(error) == [ret |-> Err(error), events |-> <<>>]

\* mutant: what nothing matched is answered as a bad request
FallthroughReply_bad_request(error) == Plain("badRequest", BAD_REQUEST)

\* the last statement: nothing matched
FallthroughReply(error) == Plain("internalServerError", INTERNAL_SERVER_ERROR)

\* mutant: the framework's method check is looked at before the error kinds
Classify_method_first(error) ==
    IF is_not_found(error) THEN
        Plain("notFound", NOT_FOUND)
    ELSE IF find(error, "MethodNotAllowed") # None THEN
        MethodNotAllowedReply
    ELSE IF find(error, "NotFoundError") # None THEN
        Kind(NotFoundError_response(find(error, "NotFoundError")[1]))
    ELSE IF find(error, "UnauthorizedError") # None THEN
        Kind(UnauthorizedError_response(find(error, "UnauthorizedError")[1]))
    ELSE IF find(error, "ValidationError") # None THEN
        Kind(ValidationError_response(find(error, "ValidationError")[1]))
    ELSE IF find(error, "InternalServerError") # None THEN
        Kind(InternalServerError_response(find(error, "InternalServerError")[1]))
    ELSE IF find(error, "TokenExpiredError") # None THEN
        Kind(TokenExpiredError_response(find(error, "TokenExpiredError")[1]))
    ELSE IF find(error, "BodyDeserializeError") # None THEN
        BodyDeserializeReply(find(error, "BodyDeserializeError")[1])
    ELSE FallthroughReply(error)

\* the if / else-if chain of handle_rejection
Classify(error) ==
    IF is_not_found(error) THEN
        Plain("notFound", NOT_FOUND)
    ELSE IF find(error, "NotFoundError") # None THEN
        Kind(NotFoundError_response(find(error, "NotFoundError")[1]))
    ELSE IF find(error, "UnauthorizedError") # None THEN
        Kind(UnauthorizedError_response(find(error, "UnauthorizedError")[1]))
    ELSE IF find(error, "ValidationError") # None THEN
        Kind(ValidationError_response(find(error, "ValidationError")[1]))
    ELSE IF find(error, "InternalServerError") # None THEN
        Kind(InternalServerError_response(find(error, "InternalServerError")[1]))
    ELSE IF find(error, "TokenExpiredError") # None THEN
        Kind(TokenExpiredError_response(find(error, "TokenExpiredError")[1]))
    ELSE IF find(error, "MethodNotAllowed") # None THEN
        MethodNotAllowedReply
    ELSE IF find(error, "BodyDeserializeError") # None THEN
        BodyDeserializeReply(find(error, "BodyDeserializeError")[1])
    ELSE FallthroughReply(error)

\* mutant: the failure is logged after the reply was built
handle_rejection_log_last(error) ==
    LET classified == Classify(error)
    IN  [ret    |-> classified.ret,
         events |-> classified.events
                    \o <<LogEvent("error", "api", "request error", error)>>]

\* handle_rejection(error): the value returned and the log and json calls made,
\* in program order; the failure is logged first
handle_rejection(error) ==
    LET classified == Classify(error)
    IN  [ret    |-> classified.ret,
         events |-> <<LogEvent("error", "api", "request error", error)>>
                    \o classified.events]

----------------------------------------------------------------------------
(* The paintings store and the delete handler *)

\* Painting::delete_query: the statement text, with the parts of it the store
\* acts on
delete_query(id, data) ==
    IF data.force
    THEN [text |-> "DELETE FROM rosemary.paintings WHERE id = '" \o id \o "'",
          verb |-> "DELETE", id |-> id, returning |-> FALSE]
    ELSE [text |-> "UPDATE rosemary.paintings SET deleted = now() WHERE id = '"
                   \o id \o "'",
          verb |-> "UPDATE", id |-> id, returning |-> FALSE]

\* the store after the statement ran
Execute(query, db) ==
    IF query.verb = "DELETE"
    THEN [db EXCEPT ![query.id] = "absent"]
    ELSE [db EXCEPT ![query.id] = IF @ = "absent" THEN "absent" ELSE "deleted"]

\* rows the statement sends back: none without a RETURNING clause
RowsReturned(query, db) ==
    IF query.returning /\ db[query.id] # "absent" THEN 1 ELSE 0

\* sqlx fetch_one: the first row, RowNotFound when the statement yields no row,
\* the database error when the statement failed
fetch_one(query, db, db_ok) ==
    IF ~db_ok THEN Err("Database")
    ELSE IF RowsReturned(query, db) = 0 THEN Err("RowNotFound")
    ELSE Ok("row")

\* the store after fetch_one: the statement took effect unless it failed
StatementEffect(query, db, db_ok) == IF db_ok THEN Execute(query, db) ELSE db

\* what get_client() can yield: the pooled client, or an error
Clients == {Ok("client"), Err("pool not initialised")}

\* delete_painting after the client was acquired: the two debug records
delete_painting_entry(painting_uid, params) ==
    <<LogEvent("debug", "api", "painting_delete:client", None),
      LogEvent("debug", "api", "painting_delete:data",
               Some([painting_uid |-> painting_uid, force |-> params.force]))>>

\* delete_painting from the match on the result of fetch_one
delete_painting_match(deleted) ==
    IF deleted.tag = "Ok" THEN
        LET response_ == GenericResponse("Success", "paintingDeleted", None)
        IN  [ret    |-> Ok(with_status(json(response_), OK)),
             events |-> <<JsonEvent(response_)>>]
    ELSE
        LET rendered == InternalServerError_response(InternalServerError_new)
        IN  [ret    |-> Ok(rendered.reply),
             events |-> <<LogEvent("error", "api", "Failed to delete painting",
                                   Some(deleted.value))>>
                        \o rendered.events]

\* delete_painting(painting_uid, params) run to its end: the value returned or
\* the panic of the unwrap on get_client(), the calls made and the store
\* afterwards
delete_painting(painting_uid, params, client, db, db_ok) ==
    IF client.tag = "Err" THEN
        [ret    |-> Panic([call |-> "Result::unwrap", error |-> client.value]),
         events |-> <<>>,
         store  |-> db]
    ELSE
        LET query == delete_query(painting_uid, params)
            deleted == fetch_one(query, db, db_ok)
            matched == delete_painting_match(deleted)
        IN  [ret    |-> matched.ret,
             events |-> delete_painting_entry(painting_uid, params)
                        \o matched.events,
             store  |-> StatementEffect(query, db, db_ok)]

\* the cause an invalid query string raises in the route's query filter
InvalidQuery == Cause("Other", None, [source |-> None])

\* what the filters of the delete route can raise before the handler runs:
\* a route miss (wrong path, malformed uuid), method-not-allowed, an invalid
\* query, and the failures of jwt_auth. The filters are chained with and, so
\* the route rejects with the one cause of the first filter that fails
DeleteRejections ==
    {RouteMiss}
    \cup {[not_found |-> FALSE, causes |-> <<c>>] :
              c \in {Cause("MethodNotAllowed", None, [source |-> None]),
                     InvalidQuery,
                     Cause("UnauthorizedError", None, UnauthorizedError_new),
                     Cause("TokenExpiredError", None, TokenExpiredError_new)}}

\* the status warp::log reads off a rejection of the route: 404 for a route
\* miss, the framework's own status for its causes, 500 for a custom cause
Rejection_status(error) ==
    IF is_not_found(error) THEN NOT_FOUND
    ELSE LET c == Head(error.causes)
         IN  CASE c.type = "MethodNotAllowed" -> METHOD_NOT_ALLOWED
               [] c.type \in {"Other", "BodyDeserializeError"} -> BAD_REQUEST
               [] OTHER -> INTERNAL_SERVER_ERROR

\* warp::log("api") around the delete route: the access record written for
\* every completion of the route, with the status of its reply or of its
\* rejection
warp_log(status) == LogEvent("info", "api", "access", Some(status))

----------------------------------------------------------------------------
(* Configuration *)

ConfigField ==
    {"TestVariable", "DatabaseUrl", "DatabaseCertPath", "StaticFilesDir",
     "CacheClientPages", "CacheClientStatic", "CacheMemoryPages",
     "CacheMemoryGeneral"}

to_str(field) ==
    CASE field = "TestVariable" -> "test_variable"
      [] field = "DatabaseUrl" -> "database_url"
      [] field = "DatabaseCertPath" -> "database_cert_path"
      [] field = "StaticFilesDir" -> "static_files_dir"
      [] field = "CacheClientPages" -> "cache_client_pages"
      [] field = "CacheClientStatic" -> "cache_client_static"
      [] field = "CacheMemoryPages" -> "cache_memory_pages"
      [] field = "CacheMemoryGeneral" -> "cache_memory_general"

\* the variables init reads, in the order it reads them, and which of them it
\* parses as u8
EnvFields ==
    <<"DatabaseUrl", "DatabaseCertPath", "StaticFilesDir", "CacheClientPages",
      "CacheClientStatic", "CacheMemoryPages", "CacheMemoryGeneral">>

U8Fields ==
    {"CacheClientPages", "CacheClientStatic", "CacheMemoryPages",
     "CacheMemoryGeneral"}

\* environments of the process: each variable absent or set to a text; the
\* text of a variable init parses is written character by character
Envs ==
    {[database_url         |-> url,
      database_cert_path   |-> Some("/certs/ca.pem"),
      static_files_dir     |-> Some("/srv/static"),
      cache_client_pages   |-> pages,
      cache_client_static  |-> Some(<<"2", "4">>),
      cache_memory_pages   |-> Some(<<"6", "0">>),
      cache_memory_general |-> Some(<<"3", "0">>)] :
        url \in {None, Some("postgres://a"), Some("postgres://b")},
        pages \in {Some(<<"5">>), Some(<<"2", "5", "5">>), Some(<<"2", "5", "6">>),
                   Some(<<"a", "b", "c">>)}}

U8_MAX == 255

\* char::to_digit(10); -1 stands for None
to_digit(c) ==
    CASE c = "0" -> 0 [] c = "1" -> 1 [] c = "2" -> 2 [] c = "3" -> 3
      [] c = "4" -> 4 [] c = "5" -> 5 [] c = "6" -> 6 [] c = "7" -> 7
      [] c = "8" -> 8 [] c = "9" -> 9 [] OTHER -> 0 - 1

\* the digit loop of from_str_radix: a character that is no digit is reported
\* before the overflow of the multiplication, which comes before that of the
\* addition
RECURSIVE parse_digits(_, _)
parse_digits(digits, result) ==
    IF digits = <<>> THEN Ok(result)
    ELSE LET x == to_digit(Head(digits))
         IN  IF x < 0 THEN Err("InvalidDigit")
             ELSE IF result * 10 > U8_MAX THEN Err("PosOverflow")
             ELSE IF result * 10 + x > U8_MAX THEN Err("PosOverflow")
             ELSE parse_digits(Tail(digits), result * 10 + x)

\* str::parse::<u8>: an empty text, a lone sign, an optional leading "+", then
\* the digits; u8 takes no "-"
parse_u8(text) ==
    IF text = <<>> THEN Err("Empty")
    ELSE IF text = <<"+">> \/ text = <<"-">> THEN Err("InvalidDigit")
    ELSE IF Head(text) = "+" THEN parse_digits(Tail(text), 0)
    ELSE parse_digits(text, 0)

\* the panic message of the expect calls made for one variable, None when the
\* variable is present and well typed
FieldFailure(env, field) ==
    LET name == to_str(field)
    IN  IF env[name] = None
        THEN Some(name \o " " \o "is required config property")
        ELSE IF field \in U8Fields /\ parse_u8(env[name][1]).tag = "Err"
        THEN Some(name \o " " \o "should be type of" \o " " \o "u8")
        ELSE None

\* the value init binds for one variable
FieldValue(env, field) ==
    IF field \in U8Fields
    THEN parse_u8(env[to_str(field)][1]).value
    ELSE env[to_str(field)][1]

\* init up to the Config instance: the first expect that fails panics
LoadConfig(env) ==
    LET failures == SelectSeq([i \in DOMAIN EnvFields |-> FieldFailure(env, EnvFields[i])],
                              LAMBDA f : f # None)
    IN  IF failures # <<>> THEN Panic(Head(failures)[1])
        ELSE Ok([test_variable        |-> "test",
                 database_url         |-> FieldValue(env, "DatabaseUrl"),
                 database_cert_path   |-> FieldValue(env, "DatabaseCertPath"),
                 static_files_dir     |-> FieldValue(env, "StaticFilesDir"),
                 cache_client_pages   |-> FieldValue(env, "CacheClientPages"),
                 cache_client_static  |-> FieldValue(env, "CacheClientStatic"),
                 cache_memory_pages   |-> FieldValue(env, "CacheMemoryPages"),
                 cache_memory_general |-> FieldValue(env, "CacheMemoryGeneral")])

\* OnceCell::set up to the permit: an error when the cell is already set, an
\* error when another set() holds the permit and has not stored yet, and
\* otherwise the permit, with which the value is stored
OnceCell_set(cell, busy, value) ==
    IF cell # None THEN [ret |-> Err("AlreadyInitializedError"), stores |-> None]
    ELSE IF busy THEN [ret |-> Err("InitializingError"), stores |-> None]
    ELSE [ret |-> Ok("unit"), stores |-> Some(value)]

\* mutant: the cell is a plain slot that every init writes
init_overwrites(env, cell, busy) ==
    LET loaded == LoadConfig(env)
    IN  IF loaded.tag = "Panic" THEN [ret |-> loaded, stores |-> None]
        ELSE [ret |-> Ok("unit"), stores |-> Some(loaded.value)]

\* init(): the value returned, or the panic, and the value its set() stores
init(env, cell, busy) ==
    LET loaded == LoadConfig(env)
    IN  IF loaded.tag = "Panic" THEN [ret |-> loaded, stores |-> None]
        ELSE LET set == OnceCell_set(cell, busy, loaded.value)
             IN  IF set.ret.tag = "Err"
                 THEN [ret    |-> Panic("Failed to set config as static reference"),
                       stores |-> None]
                 ELSE [ret |-> Ok("unit"), stores |-> set.stores]

\* types a caller can ask get for
Types == {"String", "u8", "bool"}

\* Config::get_field::<T>: the field boxed with its type, then the downcast
get_field(self, field, T) ==
    LET value == [type_id |-> IF field \in U8Fields THEN "u8" ELSE "String",
                  value   |-> self[to_str(field)]]
    IN  IF value.type_id = T
        THEN Ok(value.value)
        ELSE Err([kind |-> "Other",
                  message |-> "Failed to get config property " \o to_str(field)])

\* get::<T>(field)
get(cell, field, T) ==
    IF cell = None
    THEN Err([kind |-> "InvalidData", message |-> "Config does not exist"])
    ELSE get_field(cell[1], field, T)

----------------------------------------------------------------------------
(* The request pipeline *)

NoRequest == [route |-> "none"]
NoResponse == [status_code |-> 0, body |-> [status |-> "", message |-> "", data |-> "null"]]

Init ==
    /\ pc = "idle"
    /\ request = NoRequest
    /\ rejection = NoRejection
    /\ response = NoResponse
    /\ trace = <<>>
    /\ dispatches = 0
    /\ store \in [PaintingIds -> {"absent", "live"}]
    /\ CONFIG = None
    /\ setting = None
    /\ inits = <<>>
    /\ config_call = [op |-> "none"]

\* DELETE /api/v1.0/paintings/{uuid}?force=..: the filters passed and the
\* handler starts; it waits for get_client()
DeleteBegin ==
    /\ pc = "idle"
    /\ \E painting_uid \in PaintingIds, force \in BOOLEAN :
          request' = [route |-> "delete", painting_uid |-> painting_uid,
                      force |-> force, db_ok |-> FALSE, existed |-> FALSE,
                      deleted |-> None]
    /\ pc' = "get_client"
    /\ UNCHANGED <<rejection, response, trace, dispatches, store>>
    /\ UNCHANGED configVars

\* get_client() resolves: the unwrap panics on an error, before any record is
\* written; otherwise the handler logs and sends the statement
DeleteClient ==
    /\ pc = "get_client"
    /\ \E client \in Clients :
          IF client.tag = "Err"
          THEN /\ pc' = "panicked"
               /\ trace' = trace
          ELSE /\ pc' = "fetch_one"
               /\ trace' = trace \o delete_painting_entry(request.painting_uid,
                                                           [force |-> request.force])
    /\ UNCHANGED <<request, rejection, response, dispatches, store>>
    /\ UNCHANGED configVars

\* fetch_one resolves: the statement has acted on the store
DeleteFetch ==
    /\ pc = "fetch_one"
    /\ \E db_ok \in BOOLEAN :
          LET query == delete_query(request.painting_uid, [force |-> request.force])
          IN  /\ store' = StatementEffect(query, store, db_ok)
              /\ request' = [request EXCEPT
                                !.db_ok = db_ok,
                                !.existed = store[request.painting_uid] # "absent",
                                !.deleted = Some(fetch_one(query, store, db_ok))]
    /\ pc' = "delete_match"
    /\ UNCHANGED <<rejection, response, trace, dispatches>>
    /\ UNCHANGED configVars

\* the handler matches on the result and returns its reply; warp::log writes
\* the access record
DeleteReply ==
    /\ pc = "delete_match"
    /\ LET r == delete_painting_match(request.deleted[1])
       IN  /\ response' = r.ret.value
           /\ trace' = trace \o r.events \o <<warp_log(r.ret.value.status_code)>>
    /\ pc' = "replied"
    /\ UNCHANGED <<request, rejection, dispatches, store>>
    /\ UNCHANGED configVars

\* the statement of another delete request, in flight at the same time, acts
\* on the store
ConcurrentDelete ==
    /\ \E painting_uid \in PaintingIds, force \in BOOLEAN :
          store' = Execute(delete_query(painting_uid, [force |-> force]), store)
    /\ store' # store
    /\ UNCHANGED <<pc, request, rejection, response, trace, dispatches>>
    /\ UNCHANGED configVars

\* a filter of the delete route rejects the request: warp::log writes the
\* access record of the rejection, which then goes on to the recover handler
DeleteReject ==
    /\ pc = "idle"
    /\ \E error \in DeleteRejections :
          /\ rejection' = error
          /\ request' = [route |-> "delete_rejected"]
          /\ trace' = trace \o <<warp_log(Rejection_status(error))>>
    /\ pc' = "rejected"
    /\ UNCHANGED <<response, dispatches, store>>
    /\ UNCHANGED configVars

\* a filter or a handler of another route raises a failure into the rejection
\* channel
Reject ==
    /\ pc = "idle"
    /\ \E error \in Rejections :
          /\ rejection' = error
          /\ request' = [route |-> "rejected"]
    /\ pc' = "rejected"
    /\ UNCHANGED <<response, trace, dispatches, store>>
    /\ UNCHANGED configVars

\* some other handler returns its value
Succeed ==
    /\ pc = "idle"
    /\ request' = [route |-> "other"]
    /\ response' = with_status(json(GenericResponse("Success", "ok", Some("value"))), OK)
    /\ trace' = trace \o <<JsonEvent(GenericResponse("Success", "ok", Some("value")))>>
    /\ pc' = "replied"
    /\ UNCHANGED <<rejection, dispatches, store>>
    /\ UNCHANGED configVars

\* the recover stage hands the rejection to handle_rejection
Recover ==
    /\ pc = "rejected"
    /\ LET r == handle_rejection(rejection)
       IN  /\ trace' = trace \o r.events
           /\ IF r.ret.tag = "Ok"
              THEN response' = r.ret.value /\ pc' = "replied"
              ELSE response' = response /\ pc' = "unhandled"
    /\ dispatches' = dispatches + 1
    /\ UNCHANGED <<request, rejection, store>>
    /\ UNCHANGED configVars

\* the reply is sent; the next request starts from a clean slate
NextRequest ==
    /\ pc \in {"replied", "unhandled", "panicked"}
    /\ pc' = "idle"
    /\ request' = NoRequest
    /\ rejection' = NoRejection
    /\ response' = NoResponse
    /\ trace' = <<>>
    /\ dispatches' = 0
    /\ UNCHANGED store
    /\ UNCHANGED configVars

Next ==
    \/ DeleteBegin \/ DeleteClient \/ DeleteFetch \/ DeleteReply
    \/ DeleteReject \/ ConcurrentDelete
    \/ Reject \/ Succeed \/ Recover \/ NextRequest

Spec == Init /\ [][Next]_vars

\* the variables of the request pipeline
pipelineVars == <<pc, request, rejection, response, trace, dispatches, store>>

\* a task calls init() in the environment the process has at that moment; when
\* its set() takes the permit, the value is stored in a later step
ConfigInit ==
    /\ Len(inits) < MaxInits
    /\ \E env \in Envs :
          LET r == init(env, CONFIG, setting # None)
          IN  /\ inits' = Append(inits, env)
              /\ IF r.stores # None
                 THEN /\ setting' = r.stores
                      /\ config_call' = [op |-> "init",
                                         ret |-> [tag |-> "Pending", value |-> "set"]]
                 ELSE /\ setting' = setting
                      /\ config_call' = [op |-> "init", ret |-> r.ret]
    /\ UNCHANGED CONFIG
    /\ UNCHANGED pipelineVars

\* the set() that holds the permit stores its value, and its init() returns
ConfigSetDone ==
    /\ setting # None
    /\ CONFIG' = setting
    /\ setting' = None
    /\ config_call' = [op |-> "init", ret |-> Ok("unit")]
    /\ UNCHANGED inits
    /\ UNCHANGED pipelineVars

\* a task calls get::<T>(field)
ConfigGet ==
    /\ \E field \in ConfigField, T \in Types :
          config_call' = [op |-> "get", field |-> field, type |-> T,
                          ret |-> get(CONFIG, field, T)]
    /\ UNCHANGED <<CONFIG, setting, inits>>
    /\ UNCHANGED pipelineVars

ConfigNext == ConfigInit \/ ConfigSetDone \/ ConfigGet

\* the configuration module on its own: init and get calls in any order
ConfigSpec == Init /\ [][ConfigNext]_vars

----------------------------------------------------------------------------
(* Vocabulary of the properties *)

\* handle_rejection has answered the request in flight
Dispatched == pc = "replied" /\ dispatches = 1

\* delete_painting has answered the request in flight with an error
DeleteFailed ==
    pc = "replied" /\ request.route = "delete" /\ response.status_code # 200

DomainKinds ==
    {"NotFoundError", "UnauthorizedError", "ValidationError",
     "InternalServerError", "TokenExpiredError"}

CauseTypes(error) == {error.causes[i].type : i \in DOMAIN error.causes}

KindsCarried(error) == CauseTypes(error) \cap DomainKinds

\* the first cause of type T a failure carries
FirstCause(error, T) ==
    error.causes[CHOOSE i \in DOMAIN error.causes :
                    /\ error.causes[i].type = T
                    /\ \A j \in 1..(i - 1) : error.causes[j].type # T]

\* the checks of the dispatcher in their stated order
CheckOrder ==
    <<"RouteMiss", "NotFoundError", "UnauthorizedError", "ValidationError",
      "InternalServerError", "TokenExpiredError", "MethodNotAllowed",
      "BodyDeserializeError", "Unclassified">>

Matches(error, check) ==
    CASE check = "RouteMiss" -> error.not_found
      [] check = "Unclassified" -> TRUE
      [] OTHER -> check \in CauseTypes(error)

FirstMatch(error) ==
    CheckOrder[CHOOSE i \in DOMAIN CheckOrder :
                  /\ Matches(error, CheckOrder[i])
                  /\ \A j \in 1..(i - 1) : ~Matches(error, CheckOrder[j])]

ErrorReply(code, message) ==
    [status_code |-> code,
     body |-> [status |-> "error", message |-> message, data |-> "null"]]

\* the status and default message section 6 gives each error kind
KindTable(kind) ==
    CASE kind = "NotFoundError" -> ErrorReply(404, "notFound")
      [] kind = "UnauthorizedError" -> ErrorReply(401, "unauthorized")
      [] kind = "TokenExpiredError" -> ErrorReply(401, "tokenExpired")
      [] kind = "ValidationError" -> ErrorReply(400, "validationError")
      [] kind = "InternalServerError" -> ErrorReply(500, "internalServerError")

\* the reply section 4.2 gives the failure when `check` is the step that applies
StepReply(check, error) ==
    CASE check = "RouteMiss" -> ErrorReply(404, "notFound")
      [] check = "ValidationError" ->
            LET arg == FirstCause(error, check).arg
            IN  ErrorReply(400, IF arg = None THEN "validationError" ELSE arg[1])
      [] check \in DomainKinds \ {"ValidationError"} -> KindTable(check)
      [] check = "MethodNotAllowed" -> ErrorReply(405, "methodNotAllowed")
      [] check = "BodyDeserializeError" ->
            LET src == FirstCause(error, check).value.source
            IN  ErrorReply(400, IF src = None THEN "badRequest"
                                ELSE "validationError - " \o src[1])
      [] check = "Unclassified" -> ErrorReply(500, "internalServerError")

JsonEvents == {i \in DOMAIN trace : trace[i].ev = "json"}
ErrorLogs == {i \in DOMAIN trace : trace[i].ev = "log" /\ trace[i].level = "error"}

----------------------------------------------------------------------------
(* Properties *)

\* C1: a failure that carries exactly one of the five error kinds is answered
\* with that kind's fixed status, whatever its message, and with the kind's
\* default message unless it is a ValidationError built with an override.
C1_KindStatusAndMessage ==
    Dispatched =>
        \A kind \in DomainKinds :
            KindsCarried(rejection) = {kind} =>
                /\ response.status_code = KindTable(kind).status_code
                /\ FirstCause(rejection, kind).arg = None
                       => response.body.message = KindTable(kind).body.message

C1_Witness ==
    /\ Dispatched
    /\ KindsCarried(rejection) = {"TokenExpiredError"}
    /\ response = ErrorReply(401, "tokenExpired")

\* C2: the reply is the one of the earliest check, in the stated order, that
\* the failure matches; what later checks would match has no influence.
C2_FirstMatchWins ==
    Dispatched => response = StepReply(FirstMatch(rejection), rejection)

C2_Witness ==
    /\ Dispatched
    /\ {"UnauthorizedError", "MethodNotAllowed"} \subseteq CauseTypes(rejection)
    /\ rejection.causes[1].type = "MethodNotAllowed"
    /\ response = ErrorReply(401, "unauthorized")

\* C3: every error reply was built by handle_rejection from a failure raised
\* into the rejection channel; no handler answers a failure itself.
C3_OnlyDispatcherTranslates ==
    pc = "replied" /\ response.body.status = "error" =>
        /\ dispatches = 1
        /\ rejection # NoRejection

\* C4: handle_rejection returns Ok with one reply for every failure: the
\* request never leaves it unanswered and it serializes exactly one envelope.
C4_DispatcherTotal ==
    /\ pc # "unhandled"
    /\ dispatches = 1 =>
          /\ pc = "replied"
          /\ response # NoResponse
          /\ Cardinality(JsonEvents) = 1
          /\ response.body = json(trace[CHOOSE i \in JsonEvents : TRUE].arg)

C4_Witness ==
    /\ Dispatched
    /\ CauseTypes(rejection) = {"Other"}
    /\ response.status_code = 500

\* C5: every envelope serialized on an error path, by the dispatcher or by
\* delete_painting calling an error kind's response(), has status Error and
\* data None, and the body sent has status "error" and data null.
C5_ErrorEnvelope ==
    Dispatched \/ DeleteFailed =>
        /\ response.body.status = "error"
        /\ response.body.data = "null"
        /\ \A i \in JsonEvents :
              trace[i].arg.status = "Error" /\ trace[i].arg.data = None

C5_Witness ==
    /\ Dispatched
    /\ FirstMatch(rejection) = "ValidationError"
    /\ response.body.data = "null"
    /\ response.body.status = "error"

\* C6: when the ValidationError check is the one that applies, the reply is 400
\* with the override message the error was built with, or "validationError"
\* when it was built with none; an error of any other kind has no argument and
\* is answered with its default message.
C6_ValidationOverride ==
    Dispatched =>
        /\ FirstMatch(rejection) = "ValidationError" =>
              LET arg == FirstCause(rejection, "ValidationError").arg
              IN  /\ response.status_code = 400
                  /\ arg = None => response.body.message = "validationError"
                  /\ arg # None => response.body.message = arg[1]
        /\ FirstMatch(rejection) \in DomainKinds \ {"ValidationError"} =>
              /\ FirstCause(rejection, FirstMatch(rejection)).arg = None
              /\ response.body.message
                     = KindTable(FirstMatch(rejection)).body.message

C6_Witness ==
    /\ Dispatched
    /\ FirstMatch(rejection) = "ValidationError"
    /\ FirstCause(rejection, "ValidationError").arg = Some("title is required")
    /\ response = ErrorReply(400, "title is required")

\* C7: when the body-parse check is the one that applies, the reply is 400 with
\* "validationError - " followed by the cause text when the failure exposes a
\* cause, and 400 with "badRequest" when it exposes none.
C7_BodyParseFailure ==
    Dispatched /\ FirstMatch(rejection) = "BodyDeserializeError" =>
        LET src == FirstCause(rejection, "BodyDeserializeError").value.source
        IN  /\ response.status_code = 400
            /\ src = None => response.body.message = "badRequest"
            /\ src # None =>
                  response.body.message = "validationError - " \o src[1]

C7_Witness ==
    /\ Dispatched
    /\ FirstMatch(rejection) = "BodyDeserializeError"
    /\ response = ErrorReply(400, "validationError - unexpected token")

\* C8: a failure that is no route miss, carries no error kind and is neither a
\* method-not-allowed nor a body-parse signal is answered 500
\* "internalServerError".
C8_Unclassified ==
    /\ Dispatched
    /\ ~rejection.not_found
    /\ KindsCarried(rejection) = {}
    /\ CauseTypes(rejection) \cap {"MethodNotAllowed", "BodyDeserializeError"} = {}
    => response = ErrorReply(500, "internalServerError")

C8_Witness ==
    /\ Dispatched
    /\ rejection.causes = <<Cause("Other", None, [source |-> None])>>
    /\ response = ErrorReply(500, "internalServerError")

\* C9: a method-not-allowed failure that is no route miss and carries no error
\* kind is answered 405 "methodNotAllowed".
C9_MethodNotAllowed ==
    /\ Dispatched
    /\ ~rejection.not_found
    /\ KindsCarried(rejection) = {}
    /\ "MethodNotAllowed" \in CauseTypes(rejection)
    => response = ErrorReply(405, "methodNotAllowed")

C9_Witness ==
    /\ Dispatched
    /\ CauseTypes(rejection) = {"MethodNotAllowed", "BodyDeserializeError"}
    /\ response = ErrorReply(405, "methodNotAllowed")

\* C10: in one request the failure is logged at error severity before the
\* error envelope is serialized; the envelope is serialized exactly once when
\* a failure occurred (the dispatcher logs the whole rejection, delete_painting
\* the store's error) and no error envelope is serialized when the request
\* succeeded or while the failure still waits for the dispatcher.
C10_LogThenRenderOnce ==
    /\ Dispatched \/ DeleteFailed =>
          /\ Cardinality(JsonEvents) = 1
          /\ \A i \in JsonEvents : \E j \in ErrorLogs : j < i
    /\ Dispatched =>
          \E j \in ErrorLogs :
              /\ trace[j].arg = rejection
              /\ \A i \in JsonEvents : j < i
    /\ DeleteFailed =>
          \E j \in ErrorLogs :
              /\ trace[j].arg = Some(request.deleted[1].value)
              /\ \A i \in JsonEvents : j < i
    /\ pc \in {"rejected", "get_client", "fetch_one", "delete_match", "panicked"}
          => JsonEvents = {}
    /\ pc = "replied" /\ response.body.status = "success" =>
          \A i \in JsonEvents : trace[i].arg.status # "Error"

C10_Witness ==
    /\ DeleteFailed
    /\ ~request.db_ok
    /\ Len(trace) = 5
    /\ trace[3].ev = "log" /\ trace[3].level = "error"
    /\ trace[4].ev = "json"
    /\ trace[5].ev = "log" /\ trace[5].level = "info"

\* C11: a delete request for a painting the store holds when the statement
\* runs, whose statement the
\* store executes without error, is answered 200 with status success, message
\* "paintingDeleted" and data null, for a hard and for a soft delete alike; a
\* delete request is answered 500 only when the statement itself failed.
C11_DeleteExistingSucceeds ==
    (/\ pc = "replied"
     /\ request.route = "delete"
     /\ request.existed)
    => /\ request.db_ok
             => response = [status_code |-> 200,
                            body |-> [status |-> "success",
                                      message |-> "paintingDeleted",
                                      data |-> "null"]]
       /\ response.status_code = 500 => ~request.db_ok

\* the number each text of Envs that is a u8 denotes
U8Texts ==
    {<<<<"5">>, 5>>, <<<<"2", "4">>, 24>>, <<<<"3", "0">>, 30>>,
     <<<<"6", "0">>, 60>>, <<<<"2", "5", "5">>, 255>>}

U8Names ==
    {"cache_client_pages", "cache_client_static", "cache_memory_pages",
     "cache_memory_general"}

\* the environments, among those init ran in so far, that hold every variable
\* with a text of the right type
Loads(env) ==
    /\ \A name \in DOMAIN env : env[name] # None
    /\ \A name \in U8Names : \E t \in U8Texts : t[1] = env[name][1]

SuccessfulInits == {i \in DOMAIN inits : Loads(inits[i])}

\* the value the configuration holds for a field after being loaded from env
LoadedValue(env, name) ==
    CASE name = "test_variable" -> "test"
      [] name \in U8Names -> (CHOOSE t \in U8Texts : t[1] = env[name][1])[2]
      [] OTHER -> env[name][1]

StringNames ==
    {"test_variable", "database_url", "database_cert_path", "static_files_dir"}

\* C12: the configuration is set at most once.  It is unset as long as no init
\* call has loaded successfully; the first init that loads is the one whose
\* value is stored, and once stored the configuration holds, field by field,
\* what that init loaded, whatever calls follow or run at the same time; a get
\* before that returns the error "Config does not exist", a get after it
\* returns the stored value of the field when the requested type is the
\* field's type and an error otherwise, and no get panics.
C12_ConfigSetOnce ==
    /\ SuccessfulInits = {} => CONFIG = None /\ setting = None
    /\ SuccessfulInits # {} =>
          LET first == inits[CHOOSE i \in SuccessfulInits :
                                \A j \in SuccessfulInits : i <= j]
              loaded == [name \in StringNames \cup U8Names |->
                            LoadedValue(first, name)]
          IN  /\ \/ CONFIG = None /\ setting = Some(loaded)
                 \/ CONFIG = Some(loaded) /\ setting = None
              /\ config_call.op = "get" /\ CONFIG # None =>
                    LET name == to_str(config_call.field)
                        typed == IF name \in StringNames
                                 THEN config_call.type = "String"
                                 ELSE config_call.type = "u8"
                    IN  IF typed
                        THEN config_call.ret = Ok(loaded[name])
                        ELSE config_call.ret.tag = "Err"
    /\ config_call.op = "get" =>
          /\ config_call.ret.tag # "Panic"
          /\ CONFIG = None =>
                /\ config_call.ret.tag = "Err"
                /\ config_call.ret.value.message = "Config does not exist"

\* a second init ran in an environment that loads another database_url, and the
\* first configuration is still the one stored
C12_Witness ==
    /\ Len(inits) = 2
    /\ SuccessfulInits = {1, 2}
    /\ inits[1].database_url # inits[2].database_url
    /\ config_call.op = "init"
    /\ config_call.ret.tag = "Panic"
    /\ CONFIG # None
    /\ CONFIG[1].database_url = inits[1].database_url[1]
    /\ CONFIG[1].cache_client_pages = 255

====
